---- MODULE Spec2Model ----
(***************************************************************************)
(* State-machine model of the LeadTable component                          *)
(* (src/src/components/LeadTable.tsx).                                     *)
(*                                                                         *)
(* State: the props (leads, type), the auth context's user, the four      *)
(* useState cells, the purchaseLead / updateLeadStatus promises that are  *)
(* in flight, and the console.  One action per event handler or promise   *)
(* continuation; the props and the auth context change through            *)
(* environment actions.  An event handler is enabled only while the       *)
(* element carrying it is rendered.                                       *)
(*                                                                         *)
(* JavaScript values: the absent property / absent user?.id is Undefined, *)
(* null is Null; the two are different values under ===, both falsy.      *)
(* Lead ids and user ids are non-empty strings.                           *)
(***************************************************************************)
EXTENDS Integers, FiniteSets, Sequences, TLC

\* ---- bounds ----
MaxPending == 2      \* purchaseLead promises in flight at once
MaxSignals == 2      \* payment-success signals counted in one behaviour
MaxStatusPending == 1 \* updateLeadStatus promises in flight at once

\* ---- value universe ----
Undefined == "undefined"
Null == "null"
LeadIds == {"a", "b"}
Users == {"u1", "u2"}
ViewTypes == {"available", "purchased"}
PurchasedByValues == Users \cup {Undefined, Null}
\* lead.leadStatus as the data layer holds it: absent, or a chosen option
LeadStatusValues == {Undefined, "Contacted"}
StatusOptions == {"", "Contacted", "Meeting Scheduled", "Quote Sent", "Closed Won", "Closed Lost"}
PurchaseErrorMsg == "Error purchasing lead:"
StatusErrorMsg == "Error updating lead status:"

VARIABLES
    leads,             \* prop: the lead list, a set of [id, purchasedBy, leadStatus]
    type,              \* prop: 'available' | 'purchased'
    user,              \* useAuth().user : a user id, or Null
    expandedLead,      \* useState<string | null>(null)
    showAuthModal,     \* useState(false)
    showPaymentModal,  \* useState(false)
    selectedLeadId,    \* useState<string | null>(null)
    pendingPurchase,   \* purchaseLead(id) promises in flight: id -> count
    pendingStatus,     \* updateLeadStatus(id, status) promises in flight
    consoleErrors,     \* messages written with console.error
    paymentSignals,    \* history: payment-success signals received
    purchaseCalls,     \* history: purchaseLead calls issued
    lastTarget,        \* history: id passed by the latest recording purchase click
    lastClicked,       \* history: id passed by the latest purchase click
    lastEvent          \* history: the event handled by the latest step

vars == <<leads, type, user, expandedLead, showAuthModal, showPaymentModal,
          selectedLeadId, pendingPurchase, pendingStatus, consoleErrors,
          paymentSignals, purchaseCalls, lastTarget, lastClicked, lastEvent>>

uiState == <<expandedLead, showAuthModal, showPaymentModal, selectedLeadId>>
props == <<leads, type, user>>
history == <<paymentSignals, purchaseCalls, lastTarget, lastClicked>>

\* the event a step handles, with the lead id it carries (or Null)
Event(kind, leadId) == [kind |-> kind, leadId |-> leadId, value |-> Null]

\* the change event of a status select: the lead id and the chosen option
ChangeEvent(leadId, value) ==
    [kind |-> "statusChange", leadId |-> leadId, value |-> value]

\* ---- JavaScript helpers ----
\* !v : undefined, null and '' are the falsy values of a string-or-absent field
Falsy(v) == v \in {Undefined, Null, ""}

\* user?.id
UserId(u) == IF u = Null THEN Undefined ELSE u

\* Lead[] with unique ids (the id is the React key)
LeadLists ==
    UNION {{{f[i] : i \in S} :
              f \in {g \in [S -> [id : LeadIds,
                                  purchasedBy : PurchasedByValues,
                                  leadStatus : LeadStatusValues]] :
                        \A i \in S : g[i].id = i}} :
           S \in SUBSET LeadIds}

\* ---- render ----
\* variant: the available filter tests purchasedBy === undefined instead of
\* falsiness, so a lead whose purchasedBy is null is dropped
visibleLeadsOf_StrictUndefined(L, t, u) ==
    IF t = "available"
    THEN {lead \in L : lead.purchasedBy = Undefined}
    ELSE {lead \in L : lead.purchasedBy = UserId(u)}

\* lines 23-26
visibleLeadsOf(L, t, u) ==
    IF t = "available"
    THEN {lead \in L : Falsy(lead.purchasedBy)}
    ELSE {lead \in L : lead.purchasedBy = UserId(u)}

visibleLeads == visibleLeadsOf(leads, type, user)

\* line 82: if (visibleLeads.length === 0) return null
Rendered == visibleLeads # {}

\* lines 150-157 / 281-288: the purchase button of a row
PurchaseButtonRendered(id) ==
    Rendered /\ type = "available" /\ \E lead \in visibleLeads : lead.id = id

\* lines 158-169 / 289-300: the expand toggle of a row
ToggleRendered(id) ==
    Rendered /\ type # "available" /\ \E lead \in visibleLeads : lead.id = id

\* lines 174 and 304: the expanded panel (contact details + status select)
MobilePanelRendered(lead) ==
    Rendered /\ lead \in visibleLeads /\ type = "purchased" /\ expandedLead = lead.id

\* variant: the tabular layout omits the expandedLead === lead.id test
DesktopPanelRendered_NoExpandedTest(lead) ==
    Rendered /\ lead \in visibleLeads /\ type = "purchased"

DesktopPanelRendered(lead) ==
    Rendered /\ lead \in visibleLeads /\ type = "purchased" /\ expandedLead = lead.id

ContactPanelRendered(lead) == MobilePanelRendered(lead) \/ DesktopPanelRendered(lead)

\* lines 194 and 328: value={lead.leadStatus || ''}
SelectValue(lead) == IF Falsy(lead.leadStatus) THEN "" ELSE lead.leadStatus

\* lines 86-91: the card with the view's heading
HeaderRendered == Rendered

\* lines 351-363: the modals are part of the fragment returned after line 82
AuthModalOpen == Rendered /\ showAuthModal

\* variant: the modals are returned ahead of the empty-list guard
PaymentModalOpen_Unguarded == showPaymentModal

PaymentModalOpen == Rendered /\ showPaymentModal

\* AuthModal and PaymentModal are collaborators: a modal calls onClose or
\* onSuccess only while it is mounted and open
AuthModalEmits == AuthModalOpen
PaymentModalEmits == PaymentModalOpen
PaymentModalLeadId == IF Falsy(selectedLeadId) THEN "" ELSE selectedLeadId

TotalPending == pendingPurchase["a"] + pendingPurchase["b"]

\* ---- initial state ----
Init ==
    /\ leads \in LeadLists
    /\ type \in ViewTypes
    /\ user \in Users \cup {Null}
    /\ expandedLead = Null
    /\ showAuthModal = FALSE
    /\ showPaymentModal = FALSE
    /\ selectedLeadId = Null
    /\ pendingPurchase = [i \in LeadIds |-> 0]
    /\ pendingStatus = {}
    /\ consoleErrors = {}
    /\ paymentSignals = 0
    /\ purchaseCalls = 0
    /\ lastTarget = Null
    /\ lastClicked = Null
    /\ lastEvent = Event("init", Null)

\* ---- event handlers ----
\* variant: the early return after setShowAuthModal(true) is missing
handlePurchaseClick_NoReturn(leadId) ==
    /\ PurchaseButtonRendered(leadId)
    /\ showAuthModal' = (IF user = Null THEN TRUE ELSE showAuthModal)
    /\ selectedLeadId' = leadId
    /\ showPaymentModal' = TRUE
    /\ lastTarget' = leadId
    /\ lastClicked' = leadId
    /\ lastEvent' = Event("purchaseClick", leadId)
    /\ UNCHANGED <<props, expandedLead, pendingPurchase, pendingStatus,
                   consoleErrors, paymentSignals, purchaseCalls>>

\* variant: the authenticated branch opens the auth modal as well
handlePurchaseClick_AlsoAuth(leadId) ==
    /\ PurchaseButtonRendered(leadId)
    /\ showAuthModal' = TRUE
    /\ IF user = Null
       THEN UNCHANGED <<selectedLeadId, showPaymentModal, lastTarget>>
       ELSE /\ selectedLeadId' = leadId
            /\ showPaymentModal' = TRUE
            /\ lastTarget' = leadId
    /\ lastClicked' = leadId
    /\ lastEvent' = Event("purchaseClick", leadId)
    /\ UNCHANGED <<props, expandedLead, pendingPurchase, pendingStatus,
                   consoleErrors, paymentSignals, purchaseCalls>>

\* lines 28-35
handlePurchaseClick(leadId) ==
    /\ PurchaseButtonRendered(leadId)
    /\ IF user = Null
       THEN /\ showAuthModal' = TRUE
            /\ UNCHANGED <<selectedLeadId, showPaymentModal, lastTarget>>
       ELSE /\ selectedLeadId' = leadId
            /\ showPaymentModal' = TRUE
            /\ lastTarget' = leadId
            /\ UNCHANGED showAuthModal
    /\ lastClicked' = leadId
    /\ lastEvent' = Event("purchaseClick", leadId)
    /\ UNCHANGED <<props, expandedLead, pendingPurchase, pendingStatus,
                   consoleErrors, paymentSignals, purchaseCalls>>

\* variant: an in-flight guard ignores a success signal while a commit is
\* pending
handlePaymentSuccess_Guarded ==
    /\ PaymentModalEmits
    /\ paymentSignals < MaxSignals
    /\ paymentSignals' = paymentSignals + 1
    /\ IF Falsy(selectedLeadId) \/ TotalPending > 0
       THEN UNCHANGED <<pendingPurchase, purchaseCalls>>
       ELSE /\ pendingPurchase' =
                 [pendingPurchase EXCEPT ![selectedLeadId] = @ + 1]
            /\ purchaseCalls' = purchaseCalls + 1
    /\ lastEvent' = Event("paymentSuccess", Null)
    /\ UNCHANGED <<props, uiState, pendingStatus, consoleErrors, lastTarget,
                   lastClicked>>

\* variant: purchaseLead is awaited twice (a retry wrapper that always retries)
handlePaymentSuccess_Twice ==
    /\ PaymentModalEmits
    /\ paymentSignals < MaxSignals
    /\ paymentSignals' = paymentSignals + 1
    /\ IF Falsy(selectedLeadId)
       THEN UNCHANGED <<pendingPurchase, purchaseCalls>>
       ELSE /\ TotalPending + 1 < MaxPending
            /\ pendingPurchase' =
                 [pendingPurchase EXCEPT ![selectedLeadId] = @ + 2]
            /\ purchaseCalls' = purchaseCalls + 2
    /\ lastEvent' = Event("paymentSuccess", Null)
    /\ UNCHANGED <<props, uiState, pendingStatus, consoleErrors, lastTarget,
                   lastClicked>>

\* lines 37-40 and 361: PaymentModal onSuccess, up to the await
handlePaymentSuccess ==
    /\ PaymentModalEmits
    /\ paymentSignals < MaxSignals
    /\ paymentSignals' = paymentSignals + 1
    /\ IF Falsy(selectedLeadId)
       THEN UNCHANGED <<pendingPurchase, purchaseCalls>>
       ELSE /\ TotalPending < MaxPending
            /\ pendingPurchase' =
                 [pendingPurchase EXCEPT ![selectedLeadId] = @ + 1]
            /\ purchaseCalls' = purchaseCalls + 1
    /\ lastEvent' = Event("paymentSuccess", Null)
    /\ UNCHANGED <<props, uiState, pendingStatus, consoleErrors, lastTarget,
                   lastClicked>>

\* variant: the continuation clears the selected id but forgets to close
purchaseResolved_StaysOpen(leadId) ==
    /\ pendingPurchase[leadId] > 0
    /\ pendingPurchase' = [pendingPurchase EXCEPT ![leadId] = @ - 1]
    /\ selectedLeadId' = Null
    /\ lastEvent' = Event("purchaseResolved", leadId)
    /\ UNCHANGED <<props, expandedLead, showAuthModal, showPaymentModal,
                   pendingStatus, consoleErrors, history>>

\* lines 41-42: the continuation after purchaseLead(leadId) resolved
purchaseResolved(leadId) ==
    /\ pendingPurchase[leadId] > 0
    /\ pendingPurchase' = [pendingPurchase EXCEPT ![leadId] = @ - 1]
    /\ showPaymentModal' = FALSE
    /\ selectedLeadId' = Null
    /\ lastEvent' = Event("purchaseResolved", leadId)
    /\ UNCHANGED <<props, expandedLead, showAuthModal, pendingStatus,
                   consoleErrors, history>>

\* variant: the two setters sit in a finally block, so a rejection closes too
purchaseRejected_Finally(leadId) ==
    /\ pendingPurchase[leadId] > 0
    /\ pendingPurchase' = [pendingPurchase EXCEPT ![leadId] = @ - 1]
    /\ consoleErrors' = consoleErrors \cup {PurchaseErrorMsg}
    /\ showPaymentModal' = FALSE
    /\ selectedLeadId' = Null
    /\ lastEvent' = Event("purchaseRejected", leadId)
    /\ UNCHANGED <<props, expandedLead, showAuthModal, pendingStatus, history>>

\* lines 43-45: the catch block after purchaseLead(leadId) rejected
purchaseRejected(leadId) ==
    /\ pendingPurchase[leadId] > 0
    /\ pendingPurchase' = [pendingPurchase EXCEPT ![leadId] = @ - 1]
    /\ consoleErrors' = consoleErrors \cup {PurchaseErrorMsg}
    /\ lastEvent' = Event("purchaseRejected", leadId)
    /\ UNCHANGED <<props, uiState, pendingStatus, history>>

\* variant: onClose aborts the commit calls in flight (an AbortController)
paymentModalOnClose_Aborts ==
    /\ PaymentModalEmits
    /\ showPaymentModal' = FALSE
    /\ pendingPurchase' = [i \in LeadIds |-> 0]
    /\ lastEvent' = Event("paymentClose", Null)
    /\ UNCHANGED <<props, expandedLead, showAuthModal, selectedLeadId,
                   pendingStatus, consoleErrors, history>>

\* variant: onClose is wired to a handler that also clears the selected id
paymentModalOnClose_Clears ==
    /\ PaymentModalEmits
    /\ showPaymentModal' = FALSE
    /\ selectedLeadId' = Null
    /\ lastEvent' = Event("paymentClose", Null)
    /\ UNCHANGED <<props, expandedLead, showAuthModal,
                   pendingPurchase, pendingStatus, consoleErrors, history>>

\* line 360: PaymentModal onClose
paymentModalOnClose ==
    /\ PaymentModalEmits
    /\ showPaymentModal' = FALSE
    /\ lastEvent' = Event("paymentClose", Null)
    /\ UNCHANGED <<props, expandedLead, showAuthModal, selectedLeadId,
                   pendingPurchase, pendingStatus, consoleErrors, history>>

\* line 353: AuthModal onClose
authModalOnClose ==
    /\ AuthModalEmits
    /\ showAuthModal' = FALSE
    /\ lastEvent' = Event("authClose", Null)
    /\ UNCHANGED <<props, expandedLead, showPaymentModal, selectedLeadId,
                   pendingPurchase, pendingStatus, consoleErrors, history>>

\* variant: a successful sign-in continues straight to the payment modal
authModalOnSuccess_Continue ==
    /\ AuthModalEmits
    /\ showAuthModal' = FALSE
    /\ showPaymentModal' = TRUE
    /\ lastEvent' = Event("authSuccess", Null)
    /\ UNCHANGED <<props, expandedLead, selectedLeadId,
                   pendingPurchase, pendingStatus, consoleErrors, history>>

\* line 354: AuthModal onSuccess
authModalOnSuccess ==
    /\ AuthModalEmits
    /\ showAuthModal' = FALSE
    /\ lastEvent' = Event("authSuccess", Null)
    /\ UNCHANGED <<props, expandedLead, showPaymentModal, selectedLeadId,
                   pendingPurchase, pendingStatus, consoleErrors, history>>

\* variant: the toggle never collapses (setExpandedLead(leadId))
toggleExpand_NoCollapse(leadId) ==
    /\ ToggleRendered(leadId)
    /\ expandedLead' = leadId
    /\ lastEvent' = Event("toggleExpand", leadId)
    /\ UNCHANGED <<props, showAuthModal, showPaymentModal, selectedLeadId,
                   pendingPurchase, pendingStatus, consoleErrors, history>>

\* lines 56-58
toggleExpand(leadId) ==
    /\ ToggleRendered(leadId)
    /\ expandedLead' = IF expandedLead = leadId THEN Null ELSE leadId
    /\ lastEvent' = Event("toggleExpand", leadId)
    /\ UNCHANGED <<props, showAuthModal, showPaymentModal, selectedLeadId,
                   pendingPurchase, pendingStatus, consoleErrors, history>>

\* variant: the handler also collapses the row (setExpandedLead(null))
handleStatusChange_Collapses(leadId, status) ==
    /\ \E lead \in leads :
          /\ lead.id = leadId
          /\ ContactPanelRendered(lead)
          /\ status # SelectValue(lead)
    /\ Cardinality(pendingStatus) < MaxStatusPending
    /\ [leadId |-> leadId, status |-> status] \notin pendingStatus
    /\ pendingStatus' = pendingStatus \cup {[leadId |-> leadId, status |-> status]}
    /\ expandedLead' = Null
    /\ lastEvent' = ChangeEvent(leadId, status)
    /\ UNCHANGED <<props, showAuthModal, showPaymentModal, selectedLeadId,
                   pendingPurchase, consoleErrors, history>>

\* lines 48-50 and 195 / 329: the select's onChange, up to the await
handleStatusChange(leadId, status) ==
    /\ \E lead \in leads :
          /\ lead.id = leadId
          /\ ContactPanelRendered(lead)
          /\ status # SelectValue(lead)   \* a change event: another option
    /\ Cardinality(pendingStatus) < MaxStatusPending
    /\ [leadId |-> leadId, status |-> status] \notin pendingStatus
    /\ pendingStatus' = pendingStatus \cup {[leadId |-> leadId, status |-> status]}
    /\ lastEvent' = ChangeEvent(leadId, status)
    /\ UNCHANGED <<props, uiState, pendingPurchase, consoleErrors, history>>

\* line 50: updateLeadStatus resolved; nothing follows the await
statusResolved(call) ==
    /\ call \in pendingStatus
    /\ pendingStatus' = pendingStatus \ {call}
    /\ lastEvent' = Event("statusResolved", call.leadId)
    /\ UNCHANGED <<props, uiState, pendingPurchase, consoleErrors, history>>

\* variant: the catch block retries the call once more
statusRejected_Retry(call) ==
    /\ call \in pendingStatus
    /\ pendingStatus' = pendingStatus
    /\ consoleErrors' = consoleErrors \cup {StatusErrorMsg}
    /\ lastEvent' = Event("statusRejected", call.leadId)
    /\ UNCHANGED <<props, uiState, pendingPurchase, history>>

\* lines 51-53: the catch block after updateLeadStatus rejected
statusRejected(call) ==
    /\ call \in pendingStatus
    /\ pendingStatus' = pendingStatus \ {call}
    /\ consoleErrors' = consoleErrors \cup {StatusErrorMsg}
    /\ lastEvent' = Event("statusRejected", call.leadId)
    /\ UNCHANGED <<props, uiState, pendingPurchase, history>>

\* ---- environment ----
\* the auth context publishes another user (sign-in, sign-out, switch)
userChanged(u) ==
    /\ u # user
    /\ user' = u
    /\ lastEvent' = Event("userChanged", Null)
    /\ UNCHANGED <<leads, type, uiState, pendingPurchase, pendingStatus,
                   consoleErrors, history>>

\* the parent passes another lead list: one lead added, removed, re-owned
\* or given another status
leadsChanged(L) ==
    /\ L # leads
    /\ \E id \in LeadIds :
          {x \in L : x.id # id} = {x \in leads : x.id # id}
    /\ leads' = L
    /\ lastEvent' = Event("leadsChanged", Null)
    /\ UNCHANGED <<type, user, uiState, pendingPurchase, pendingStatus,
                   consoleErrors, history>>

Next ==
    \/ \E id \in LeadIds : handlePurchaseClick(id)
    \/ handlePaymentSuccess
    \/ \E id \in LeadIds : purchaseResolved(id)
    \/ \E id \in LeadIds : purchaseRejected(id)
    \/ paymentModalOnClose
    \/ authModalOnClose
    \/ authModalOnSuccess
    \/ \E id \in LeadIds : toggleExpand(id)
    \/ \E id \in LeadIds, s \in StatusOptions : handleStatusChange(id, s)
    \/ \E c \in pendingStatus : statusResolved(c)
    \/ \E c \in pendingStatus : statusRejected(c)
    \/ \E u \in Users \cup {Null} : userChanged(u)
    \/ \E L \in LeadLists : leadsChanged(L)

Spec == Init /\ [][Next]_vars

TypeOK ==
    /\ leads \in LeadLists
    /\ type \in ViewTypes
    /\ user \in Users \cup {Null}
    /\ expandedLead \in LeadIds \cup {Null}
    /\ showAuthModal \in BOOLEAN
    /\ showPaymentModal \in BOOLEAN
    /\ selectedLeadId \in LeadIds \cup {Null}
    /\ pendingPurchase \in [LeadIds -> 0..MaxPending]
    /\ pendingStatus \subseteq [leadId : LeadIds, status : StatusOptions]
    /\ consoleErrors \subseteq {PurchaseErrorMsg, StatusErrorMsg}
    /\ paymentSignals \in 0..MaxSignals
    /\ purchaseCalls \in 0..MaxSignals
    /\ lastTarget \in LeadIds \cup {Null}
    /\ lastClicked \in LeadIds \cup {Null}
    /\ lastEvent \in [kind : STRING, leadId : LeadIds \cup {Null},
                     value : StatusOptions \cup {Null}]

\* ---- properties ----
\* purchasedBy is absent: the property is missing or null
Absent(v) == v \in {Undefined, Null}

\* the viewer is authenticated and owns the lead
OwnedByViewer(lead) == user \in Users /\ lead.purchasedBy = user

\* the leads that have a row on screen
RenderedLeads == IF Rendered THEN visibleLeads ELSE {}

\* C1: whenever a lead's contact panel is rendered, the viewer is
\* authenticated and lead.purchasedBy is the viewer's id.
C1_ContactOnlyForOwner ==
    \A lead \in leads : ContactPanelRendered(lead) => OwnedByViewer(lead)

\* C2: the purchased view renders exactly the leads whose purchasedBy is the
\* viewer's id, and nothing for an anonymous viewer.
C2_PurchasedViewExact ==
    type = "purchased" =>
        RenderedLeads = {lead \in leads : OwnedByViewer(lead)}

\* C3: the available view renders exactly the leads whose purchasedBy is
\* absent, whoever the viewer is; a lead with purchasedBy set is never in it.
C3_AvailableViewExact ==
    /\ type = "available" =>
          /\ RenderedLeads = {lead \in leads : Absent(lead.purchasedBy)}
          /\ \A lead \in RenderedLeads : lead.purchasedBy \notin Users
    /\ \A u \in Users \cup {Null} :
          visibleLeadsOf(leads, "available", u) =
              {lead \in leads : Absent(lead.purchasedBy)}

\* C3 witness: after the list changed, an available view in front of an
\* anonymous viewer shows an unsold lead and hides a sold one
C3_Witness ==
    /\ type = "available"
    /\ user = Null
    /\ lastEvent.kind = "leadsChanged"
    /\ \E x \in leads, y \in leads :
          /\ x.purchasedBy \in Users /\ x \notin RenderedLeads
          /\ Absent(y.purchasedBy) /\ y \in RenderedLeads

\* C4: a payment-success signal issues exactly one purchaseLead call, for
\* the id the latest recording purchase click stored; no other step issues a
\* purchaseLead call; the calls never outnumber the signals.
C4_CommitOnlyOnPaymentSuccess ==
    /\ [](purchaseCalls <= paymentSignals)
    /\ [][IF lastEvent'.kind = "paymentSuccess"
          THEN /\ paymentSignals' = paymentSignals + 1
               /\ purchaseCalls' = purchaseCalls + 1
               /\ selectedLeadId \in LeadIds
               /\ selectedLeadId = lastTarget
               /\ pendingPurchase' =
                    [pendingPurchase EXCEPT ![selectedLeadId] = @ + 1]
          ELSE /\ purchaseCalls' = purchaseCalls
               /\ paymentSignals' = paymentSignals
               /\ \A id \in LeadIds : pendingPurchase'[id] <= pendingPurchase[id]
       ]_vars

\* C4 witness: a success signal has just issued the one call of this
\* behaviour, for the clicked lead
C4_Witness ==
    /\ lastEvent.kind = "paymentSuccess"
    /\ paymentSignals = 1
    /\ purchaseCalls = 1
    /\ selectedLeadId \in LeadIds
    /\ pendingPurchase[selectedLeadId] = 1

C6_CancelClearsSelected ==
    lastEvent.kind = "paymentClose" =>
        /\ showPaymentModal = FALSE
        /\ selectedLeadId = Null

\* C6 amended: the payment modal's close callback sets the modal flag to
\* false, issues no purchaseLead call and leaves the selected lead id as it
\* was.
C6_CancelKeepsSelected ==
    [][lastEvent'.kind = "paymentClose" =>
         /\ showPaymentModal /\ ~showPaymentModal'
         /\ selectedLeadId' = selectedLeadId
         /\ pendingPurchase' = pendingPurchase
         /\ purchaseCalls' = purchaseCalls
      ]_vars

\* C6 witness: the modal was cancelled and the clicked id is still selected
C6_Witness ==
    /\ lastEvent.kind = "paymentClose"
    /\ ~showPaymentModal
    /\ selectedLeadId \in LeadIds
    /\ purchaseCalls = 0

\* C7: a purchase click by an anonymous viewer sets the auth modal flag and
\* changes neither the payment modal flag nor the selected lead id.
C7_AnonymousClickOpensAuth ==
    [][(lastEvent'.kind = "purchaseClick" /\ user = Null) =>
         /\ showAuthModal' = TRUE
         /\ showPaymentModal' = showPaymentModal
         /\ selectedLeadId' = selectedLeadId
      ]_vars

\* C7 witness: an anonymous click has opened the auth modal only
C7_Witness ==
    /\ lastEvent.kind = "purchaseClick"
    /\ user = Null
    /\ AuthModalOpen
    /\ ~showPaymentModal
    /\ selectedLeadId = Null

\* C8: a purchase click by an authenticated viewer sets the payment modal
\* flag, makes the clicked id the selected lead id (the modal's leadId prop)
\* and leaves the auth modal flag unchanged.
C8_AuthenticatedClickOpensPayment ==
    [][(lastEvent'.kind = "purchaseClick" /\ user \in Users) =>
         /\ showPaymentModal' = TRUE
         /\ selectedLeadId' = lastEvent'.leadId
         /\ PaymentModalLeadId' = lastEvent'.leadId
         /\ showAuthModal' = showAuthModal
      ]_vars

\* C8 witness: an authenticated click has opened the payment modal on the
\* clicked lead, the auth modal staying closed
C8_Witness ==
    /\ lastEvent.kind = "purchaseClick"
    /\ user \in Users
    /\ PaymentModalOpen
    /\ PaymentModalLeadId = lastEvent.leadId
    /\ ~showAuthModal

\* C9: the auth modal's success callback sets the auth modal flag to false
\* and changes nothing else (payment modal flag, selected lead id,
\* purchaseLead calls); the payment modal flag becomes true only in a
\* purchase click step.
C9_AuthSuccessClosesOnlyAuth ==
    /\ [][lastEvent'.kind = "authSuccess" =>
            /\ showAuthModal /\ ~showAuthModal'
            /\ UNCHANGED <<showPaymentModal, selectedLeadId, expandedLead>>
            /\ UNCHANGED <<pendingPurchase, purchaseCalls>>
         ]_vars
    /\ [][(~showPaymentModal /\ showPaymentModal') =>
            lastEvent'.kind = "purchaseClick"
         ]_vars

\* C9 witness: sign-in succeeded, the viewer is now authenticated, and the
\* payment modal is closed with no lead selected
C9_Witness ==
    /\ lastEvent.kind = "authSuccess"
    /\ ~showAuthModal
    /\ ~showPaymentModal
    /\ selectedLeadId = Null
    /\ purchaseCalls = 0

\* C10: every updateLeadStatus call is issued for a lead whose purchasedBy
\* is the id of the authenticated viewer making the selection.
C10_StatusUpdateOnlyByOwner ==
    [][lastEvent'.kind = "statusChange" =>
         \E lead \in leads :
            /\ lead.id = lastEvent'.leadId
            /\ OwnedByViewer(lead)
      ]_vars

\* C11: a change of the status select of an expanded purchased lead issues
\* exactly one updateLeadStatus call, with that lead's id and the chosen
\* value, and changes no local state and no lead; the select always shows
\* the lead's persisted leadStatus, or '' when it has none.
C11_StatusChangeRelaysOnce ==
    /\ [](\A lead \in leads : ContactPanelRendered(lead) =>
            /\ SelectValue(lead) \in StatusOptions
            /\ lead.leadStatus \in StatusOptions =>
                  SelectValue(lead) = lead.leadStatus
            /\ lead.leadStatus \notin StatusOptions => SelectValue(lead) = "")
    /\ [][lastEvent'.kind = "statusChange" =>
            /\ pendingStatus' \ pendingStatus =
                  {[leadId |-> lastEvent'.leadId, status |-> lastEvent'.value]}
            /\ pendingStatus \subseteq pendingStatus'
            /\ expandedLead = lastEvent'.leadId
            /\ UNCHANGED uiState
            /\ UNCHANGED leads
       ]_vars

\* C11 witness: 'Closed Won' was chosen for the expanded lead 'a', whose
\* persisted status is 'Contacted'; the call is in flight, the select still
\* shows 'Contacted'
C11_Witness ==
    /\ lastEvent = ChangeEvent("a", "Closed Won")
    /\ pendingStatus = {[leadId |-> "a", status |-> "Closed Won"]}
    /\ expandedLead = "a"
    /\ \E lead \in leads :
          /\ lead.id = "a"
          /\ ContactPanelRendered(lead)
          /\ lead.leadStatus = "Contacted"
          /\ SelectValue(lead) = "Contacted"

\* the ids of the leads whose detail panel is on screen, per layout
MobilePanelIds == {lead.id : lead \in {x \in leads : MobilePanelRendered(x)}}
DesktopPanelIds == {lead.id : lead \in {x \in leads : DesktopPanelRendered(x)}}

\* C12: at most one lead has its detail panel rendered, it is the same lead
\* in the compact and the tabular layout, and the available view never
\* renders a detail panel.
C12_AtMostOnePanel ==
    /\ Cardinality(MobilePanelIds \cup DesktopPanelIds) <= 1
    /\ MobilePanelIds = DesktopPanelIds
    /\ type = "available" => MobilePanelIds \cup DesktopPanelIds = {}

\* C12 witness: two purchased rows are listed, the expansion moved from one
\* to the other by a toggle, and exactly one panel is rendered
C12_Witness ==
    /\ Cardinality(visibleLeads) = 2
    /\ type = "purchased"
    /\ lastEvent.kind = "toggleExpand"
    /\ MobilePanelIds = {lastEvent.leadId}
    /\ DesktopPanelIds = {lastEvent.leadId}

\* C13: when the filtered list is empty nothing is rendered: no header, no
\* row, no button, no panel and neither modal, whatever the modal flags are.
C13_EmptyRendersNothing ==
    visibleLeads = {} =>
        /\ ~HeaderRendered
        /\ RenderedLeads = {}
        /\ \A id \in LeadIds : ~PurchaseButtonRendered(id) /\ ~ToggleRendered(id)
        /\ MobilePanelIds \cup DesktopPanelIds = {}
        /\ ~AuthModalOpen
        /\ ~PaymentModalOpen

\* C13 witness: the last available lead left the list while the payment
\* modal flag was true; the flag is still true and nothing is rendered
C13_Witness ==
    /\ type = "available"
    /\ lastEvent.kind = "leadsChanged"
    /\ visibleLeads = {}
    /\ showPaymentModal
    /\ selectedLeadId \in LeadIds
    /\ ~PaymentModalOpen

\* C14: a success signal that arrives while a purchaseLead call for the
\* selected lead is still in flight issues another purchaseLead call for
\* the same id.
C14_DoubleFireDoubleCommit ==
    [][(/\ lastEvent'.kind = "paymentSuccess"
        /\ selectedLeadId \in LeadIds
        /\ pendingPurchase[selectedLeadId] > 0) =>
          /\ pendingPurchase'[selectedLeadId] = pendingPurchase[selectedLeadId] + 1
          /\ purchaseCalls' = purchaseCalls + 1
          /\ selectedLeadId' = selectedLeadId
      ]_vars

\* C14 witness: two success signals in a row for one click; two calls for
\* the clicked lead are in flight
C14_Witness ==
    /\ lastEvent.kind = "paymentSuccess"
    /\ paymentSignals = 2
    /\ purchaseCalls = 2
    /\ selectedLeadId \in LeadIds
    /\ selectedLeadId = lastTarget
    /\ pendingPurchase[selectedLeadId] = 2

\* C15: the close callback does not abort a purchaseLead call in flight: a
\* call leaves the in-flight set only by settling, it can settle in every
\* state where it is in flight, and a resolution after the close still
\* runs lines 41-42, a rejection still logs.
C15_CloseDoesNotAbort ==
    /\ [](\A id \in LeadIds : pendingPurchase[id] > 0 =>
            ENABLED purchaseResolved(id) /\ ENABLED purchaseRejected(id))
    /\ [][\A id \in LeadIds :
            pendingPurchase'[id] < pendingPurchase[id] =>
               /\ lastEvent'.kind \in {"purchaseResolved", "purchaseRejected"}
               /\ lastEvent'.leadId = id
               /\ pendingPurchase'[id] = pendingPurchase[id] - 1
         ]_vars
    /\ [][(lastEvent.kind = "paymentClose" /\ lastEvent'.kind = "purchaseResolved") =>
            ~showPaymentModal' /\ selectedLeadId # Null /\ selectedLeadId' = Null
         ]_vars
    /\ [][(lastEvent.kind = "paymentClose" /\ lastEvent'.kind = "purchaseRejected") =>
            PurchaseErrorMsg \in consoleErrors' /\ UNCHANGED uiState
         ]_vars

\* C15 witness: the close callback has run while the call for the selected
\* lead was in flight; the call is still in flight and can settle
C15_Witness ==
    /\ lastEvent.kind = "paymentClose"
    /\ ~showPaymentModal
    /\ selectedLeadId \in LeadIds
    /\ pendingPurchase[selectedLeadId] = 1
    /\ ENABLED purchaseResolved(selectedLeadId)

\* C16: a rejected updateLeadStatus call is logged and nothing else
\* happens: the call leaves the in-flight set, no call is added, and the
\* expanded id, both modal flags and the selected lead id are unchanged.
C16_StatusRejectionOnlyLogs ==
    [][lastEvent'.kind = "statusRejected" =>
         /\ StatusErrorMsg \in consoleErrors'
         /\ pendingStatus' \subseteq pendingStatus
         /\ Cardinality(pendingStatus') = Cardinality(pendingStatus) - 1
         /\ UNCHANGED uiState
         /\ UNCHANGED leads
      ]_vars

\* C16 witness: a status update was rejected and logged, the row is still
\* expanded and no call is in flight
C16_Witness ==
    /\ lastEvent.kind = "statusRejected"
    /\ StatusErrorMsg \in consoleErrors
    /\ pendingStatus = {}
    /\ expandedLead = lastEvent.leadId

\* C17: toggleExpand(id) collapses when id is the expanded lead and
\* otherwise expands exactly id; a second toggle of the row just expanded
\* leaves no row expanded; a toggle changes neither modal flag nor the
\* selected lead id.
C17_ToggleExpand ==
    /\ [][lastEvent'.kind = "toggleExpand" =>
            /\ expandedLead = lastEvent'.leadId => expandedLead' = Null
            /\ expandedLead # lastEvent'.leadId => expandedLead' = lastEvent'.leadId
            /\ UNCHANGED <<showAuthModal, showPaymentModal, selectedLeadId>>
         ]_vars
    /\ [][(/\ lastEvent.kind = "toggleExpand"
           /\ lastEvent' = lastEvent
           /\ expandedLead = lastEvent.leadId) =>
            expandedLead' = Null
         ]_vars

\* C17 witness: a toggle of the expanded row has collapsed it
C17_Witness ==
    /\ lastEvent.kind = "toggleExpand"
    /\ expandedLead = Null
    /\ ToggleRendered(lastEvent.leadId)

\* C18 as stated: while the payment modal flag is true the selected lead id
\* is non-null and is the id passed by the most recent purchase click.
C18_OpenOnLatestClick ==
    showPaymentModal =>
        /\ selectedLeadId \in LeadIds
        /\ selectedLeadId = lastClicked

\* C18 amended: while the payment modal flag is true the selected lead id
\* is non-null (the modal's leadId prop is not '') and is the id passed by
\* the most recent purchase click of an authenticated viewer.
C18_OpenOnLatestRecordedClick ==
    showPaymentModal =>
        /\ selectedLeadId \in LeadIds
        /\ selectedLeadId = lastTarget
        /\ PaymentModalLeadId = lastTarget
        /\ PaymentModalLeadId # ""

\* C18 witness: with the payment modal open on one lead the viewer became
\* anonymous and clicked purchase on the other lead; the target is unchanged
C18_Witness ==
    /\ lastEvent.kind = "purchaseClick"
    /\ user = Null
    /\ PaymentModalOpen
    /\ selectedLeadId = lastTarget
    /\ lastClicked # lastTarget

\* C19: when a purchaseLead call resolves while the payment modal is open
\* on another lead than the call's, the modal stays open and that lead
\* stays selected.
C19_ResolveEndsOwnAttemptOnly ==
    [][(/\ lastEvent'.kind = "purchaseResolved"
        /\ showPaymentModal
        /\ selectedLeadId \in LeadIds
        /\ selectedLeadId # lastEvent'.leadId) =>
          /\ showPaymentModal'
          /\ selectedLeadId' = selectedLeadId
      ]_vars
====
